---- MODULE Spec2Model ----
(***************************************************************************)
(* Model of the notification fan-out pipeline, the inbox lifecycle and the *)
(* ephemeral media registry of src/src/app.py.                             *)
(*                                                                         *)
(* The document store is a map from document ids to documents (records).   *)
(* Timestamps are whole seconds of one clock, now. The opaque text fields  *)
(* of a notification (type, title, body, severity, data) are read by no    *)
(* operation and are left out of the payload.                              *)
(***************************************************************************)
EXTENDS Integers, Sequences, FiniteSets, TLC

VARIABLES
    now,                  \* the clock: datetime.now(timezone.utc) / SERVER_TIMESTAMP
    uuids,                \* how many uuid4() values have been drawn
    channels,             \* NotificationService.channels, as channel names
    notification_events,  \* collection notification_events: event_id -> document
    inbox,                \* users/{username}/notifications: username -> (event_id -> document)
    media_uploads,        \* collection media_uploads, the records written in the run
    files,                \* the paths of the files saved in the run
    resp,                 \* the result of the last operation
    calls,                \* requests served step by step: call -> position, locals, answer
    USERS                 \* the module's USERS dict: username -> stored credential

vars == <<now, uuids, channels, notification_events, inbox, media_uploads, files, resp,
          calls, USERS>>
userVars == <<calls, USERS>>
mediaVars == <<media_uploads, files>>

----------------------------------------------------------------------------
(* Bounds *)

MaxEvents == 2        \* uuid4() draws in a run
MaxClock == 1         \* the clock runs 0..MaxClock in the notification runs
MaxRecipients == 2    \* length of a recipient list passed to publish

(* Program constants *)

NOTIFICATION_SCHEMA_VERSION == 1
BATCH_SIZE == 450

----------------------------------------------------------------------------
(* Values *)

Usernames == {"alice", "bob"}
\* get_current_user() yields a username or nothing; "" stands for every falsy value
Principals == Usernames \cup {""}
RecipientLists == UNION {[1..n -> Principals] : n \in 0..MaxRecipients}
EventIds == 1..MaxEvents

\* Python None, and a timestamp that is set
None == <<>>
Some(t) == <<t>>

DefaultChannels ==
    <<"firestore_event_log", "firestore_user_inbox", "web_push_stub", "mobile_push_stub">>
\* a service built with the abstract channel in the list: its deliver always raises
BaseChannels == <<"firestore_user_inbox", "base", "firestore_event_log">>
ChannelConfigs == {DefaultChannels, BaseChannels}

Truthy(r) == r # ""

\* no request is being served step by step
NoCalls == [c \in {} |-> None]

\* generate_password_hash: a werkzeug hash of the password, a text as a sequence of tokens
generate_password_hash(password) == <<"scrypt:">> \o password

\* USERS after the module is loaded: the demo user exists
LoadedUsers == [u \in {<<"student">>} |-> generate_password_hash(<<"secret">>)]

\* set a document: create or replace
Put(coll, id, doc) == [x \in DOMAIN coll \cup {id} |-> IF x = id THEN doc ELSE coll[x]]
\* delete documents
Remove(coll, ids) == [x \in DOMAIN coll \ ids |-> coll[x]]
\* set(..., merge=True): the written fields replace, the others stay
Merge(old, new) == new @@ old
SetMerge(coll, id, doc) ==
    Put(coll, id, IF id \in DOMAIN coll THEN Merge(coll[id], doc) ELSE doc)

\* document ids are the positive integers up to IdCeiling
IdCeiling == 2 * BATCH_SIZE + 128

\* the ids of S within lo..hi in ascending order: a short range is walked, a long one
\* is halved
RECURSIVE Ascending(_, _, _)
Ascending(S, lo, hi) ==
    IF S = {} THEN <<>>
    ELSE IF hi - lo < 16
    THEN SelectSeq([i \in 1..(hi - lo + 1) |-> lo + i - 1], LAMBDA x : x \in S)
    ELSE Ascending({x \in S : x <= (lo + hi) \div 2}, lo, (lo + hi) \div 2)
            \o Ascending({x \in S : x > (lo + hi) \div 2}, (lo + hi) \div 2 + 1, hi)

\* the first of h, 2h, 4h, ... that no id of S exceeds
RECURSIVE Cover(_, _)
Cover(S, h) == IF h >= IdCeiling \/ \A x \in S : x <= h THEN h ELSE Cover(S, 2 * h)

\* the documents of a query without order_by come in document-id order
SortedIds(S) == Ascending(S, 1, Cover(S, 16))

----------------------------------------------------------------------------
(* Delivery channels *)

\* a payload that carries an id of its own instead of the event's
BuildPayloadOwnId(event_id, actor_username, device_id, t) ==
    [schema_version |-> NOTIFICATION_SCHEMA_VERSION,
     event_id |-> event_id + 1,
     actor_username |-> actor_username,
     device_id |-> device_id,
     created_at_client_iso |-> t]

\* a payload that carries the id of the first event, whichever id was drawn
BuildPayloadFirstId(event_id, actor_username, device_id, t) ==
    [schema_version |-> NOTIFICATION_SCHEMA_VERSION,
     event_id |-> 1,
     actor_username |-> actor_username,
     device_id |-> device_id,
     created_at_client_iso |-> t]

BuildPayload(event_id, actor_username, device_id, t) ==
    [schema_version |-> NOTIFICATION_SCHEMA_VERSION,
     event_id |-> event_id,
     actor_username |-> actor_username,
     device_id |-> device_id,
     created_at_client_iso |-> t]

\* an event log that adds a record under a new key at every delivery
EventLogDeliverAppend(st, payload, recipients, faults, t) ==
    IF faults.log
    THEN [st |-> st, raised |-> TRUE, result |-> None]
    ELSE [st |-> [st EXCEPT !.events =
                     Put(st.events,
                         CHOOSE k \in 1..(Cardinality(DOMAIN st.events) + 1) :
                            k \notin DOMAIN st.events,
                         [recipient_usernames |-> recipients, logged_at |-> t] @@ payload)],
          raised |-> FALSE,
          result |-> [channel |-> "firestore_event_log", status |-> "ok",
                      logged_event_id |-> payload.event_id]]

\* a channel's deliver gives the store after it, whether it raised, and its result
EventLogDeliver(st, payload, recipients, faults, t) ==
    IF faults.log
    THEN [st |-> st, raised |-> TRUE, result |-> None]
    ELSE [st |-> [st EXCEPT !.events =
                     Put(st.events, payload.event_id,
                         [recipient_usernames |-> recipients, logged_at |-> t] @@ payload)],
          raised |-> FALSE,
          result |-> [channel |-> "firestore_event_log", status |-> "ok",
                      logged_event_id |-> payload.event_id]]

\* the fields that the inbox channel writes for one recipient
InboxDoc(payload, username, t) ==
    [username |-> username,
     read |-> FALSE,
     read_at |-> None,
     created_at |-> t,
     updated_at |-> t,
     delivery |-> [in_app |-> [status |-> "delivered", at_client_iso |-> t],
                   web_push |-> [status |-> "not_attempted"],
                   mobile_push |-> [status |-> "not_attempted"]]] @@ payload

\* the first n recipients' writes, in order
RECURSIVE InboxWrites(_, _, _, _, _)
InboxWrites(ib, payload, recipients, n, t) ==
    IF n = 0 THEN ib
    ELSE LET before == InboxWrites(ib, payload, recipients, n - 1, t)
             username == recipients[n]
         IN [before EXCEPT ![username] =
                SetMerge(before[username], payload.event_id, InboxDoc(payload, username, t))]

\* faults.inbox is the number of writes that succeed: fewer than the recipients
\* means that the next write raised
InboxDeliver(st, payload, recipients, faults, t) ==
    IF faults.inbox < Len(recipients)
    THEN [st |-> [st EXCEPT !.inbox = InboxWrites(st.inbox, payload, recipients, faults.inbox, t)],
          raised |-> TRUE, result |-> None]
    ELSE [st |-> [st EXCEPT !.inbox = InboxWrites(st.inbox, payload, recipients, Len(recipients), t)],
          raised |-> FALSE,
          result |-> [channel |-> "firestore_user_inbox", status |-> "ok",
                      writes |-> Len(recipients)]]

\* a placeholder that counts the recipients that have a name
StubDeliverCountingNamed(name, st, recipients) ==
    [st |-> st, raised |-> FALSE,
     result |-> [channel |-> name, status |-> "skipped", reason |-> "stub_not_implemented",
                 recipient_count |-> Len(SelectSeq(recipients, Truthy))]]

StubDeliver(name, st, recipients) ==
    [st |-> st, raised |-> FALSE,
     result |-> [channel |-> name, status |-> "skipped", reason |-> "stub_not_implemented",
                 recipient_count |-> Len(recipients)]]

BaseDeliver(st) == [st |-> st, raised |-> TRUE, result |-> None]

Deliver(name, st, payload, recipients, faults, t) ==
    CASE name = "firestore_event_log" -> EventLogDeliver(st, payload, recipients, faults, t)
      [] name = "firestore_user_inbox" -> InboxDeliver(st, payload, recipients, faults, t)
      [] name = "web_push_stub" -> StubDeliver(name, st, recipients)
      [] name = "mobile_push_stub" -> StubDeliver(name, st, recipients)
      [] OTHER -> BaseDeliver(st)

ErrorOutcome(name) == [channel |-> name, status |-> "error"]

----------------------------------------------------------------------------
(* NotificationService.publish *)

\* the loop over self.channels from channel i on; acc is [st, deliveries]
RECURSIVE RunChannelsAbort(_, _, _, _)
RunChannelsAbort(chs, i, acc, ctx) ==
    IF i > Len(chs) THEN acc
    ELSE LET d == Deliver(chs[i], acc.st, ctx.payload, ctx.recipients, ctx.faults, ctx.t)
         IN IF d.raised
            THEN [st |-> d.st, deliveries |-> Append(acc.deliveries, ErrorOutcome(chs[i]))]
            ELSE RunChannelsAbort(chs, i + 1,
                     [st |-> d.st, deliveries |-> Append(acc.deliveries, d.result)], ctx)

\* the loop, putting each outcome in front of the ones collected so far
RECURSIVE RunChannelsNewestFirst(_, _, _, _)
RunChannelsNewestFirst(chs, i, acc, ctx) ==
    IF i > Len(chs) THEN acc
    ELSE LET d == Deliver(chs[i], acc.st, ctx.payload, ctx.recipients, ctx.faults, ctx.t)
         IN RunChannelsNewestFirst(chs, i + 1,
                [st |-> d.st,
                 deliveries |-> <<IF d.raised THEN ErrorOutcome(chs[i]) ELSE d.result>>
                                   \o acc.deliveries],
                ctx)

RECURSIVE RunChannels(_, _, _, _)
RunChannels(chs, i, acc, ctx) ==
    IF i > Len(chs) THEN acc
    ELSE LET d == Deliver(chs[i], acc.st, ctx.payload, ctx.recipients, ctx.faults, ctx.t)
         IN RunChannels(chs, i + 1,
                [st |-> d.st,
                 deliveries |-> Append(acc.deliveries,
                                       IF d.raised THEN ErrorOutcome(chs[i]) ELSE d.result)],
                ctx)

FilterRecipients(recipients) == SelectSeq(recipients, Truthy)

\* publish without the early return for an empty recipient list
publishNoSkip(st, chs, recipients, actor_username, device_id, faults, event_id, t) ==
    LET rs == FilterRecipients(recipients)
        run == RunChannels(chs, 1, [st |-> st, deliveries |-> <<>>],
                           [payload |-> BuildPayload(event_id, actor_username, device_id, t),
                            recipients |-> rs, faults |-> faults, t |-> t])
    IN [st |-> run.st,
        result |-> [status |-> "ok", event_id |-> event_id,
                    recipient_count |-> Len(rs), deliveries |-> run.deliveries]]

\* publish on store st, drawing event_id when it needs one: [st, result]
publish(st, chs, recipients, actor_username, device_id, faults, event_id, t) ==
    LET rs == FilterRecipients(recipients) IN
    IF rs = <<>>
    THEN [st |-> st,
          result |-> [status |-> "skipped", reason |-> "no_recipients", deliveries |-> <<>>]]
    ELSE LET run == RunChannels(chs, 1, [st |-> st, deliveries |-> <<>>],
                                [payload |-> BuildPayload(event_id, actor_username, device_id, t),
                                 recipients |-> rs,
                                 faults |-> faults, t |-> t])
         IN [st |-> run.st,
             result |-> [status |-> "ok", event_id |-> event_id,
                         recipient_count |-> Len(rs), deliveries |-> run.deliveries]]

Store == [events |-> notification_events, inbox |-> inbox]

Faults(recipients) ==
    [log : BOOLEAN, inbox : 0..Len(FilterRecipients(recipients))]

\* every write of a publish to one recipient succeeds
NoFaults == [log |-> FALSE, inbox |-> 1]

\* the event log answers; an inbox write may fail
InboxFaults(recipients) == {f \in Faults(recipients) : ~f.log}

Publish(recipients, faults) ==
    LET r == publish(Store, channels, recipients, "", "", faults, uuids + 1, now) IN
    /\ r.result.status = "ok" => uuids < MaxEvents
    /\ uuids' = IF r.result.status = "ok" THEN uuids + 1 ELSE uuids
    /\ notification_events' = r.st.events
    /\ inbox' = r.st.inbox
    /\ resp' = [op |-> "publish", recipients |-> recipients, faults |-> faults] @@ r.result
    /\ UNCHANGED <<now, channels, mediaVars, userVars>>

\* the demo resolver: the acting user alone, without duplicates, in order
RECURSIVE Dedupe(_)
Dedupe(recipients) ==
    IF recipients = <<>> THEN <<>>
    ELSE LET front == Dedupe(SubSeq(recipients, 1, Len(recipients) - 1))
             last == recipients[Len(recipients)]
         IN IF \E i \in 1..Len(front) : front[i] = last THEN front ELSE Append(front, last)

\* a resolver that notifies every user of every device
resolve_every_user(device_id, actor_username) == <<"alice", "bob">>

\* a resolver that does not test the actor
resolve_without_actor_test(device_id, actor_username) == Dedupe(<<actor_username>>)

resolve_notification_recipients_for_device(device_id, actor_username) ==
    Dedupe(IF Truthy(actor_username) THEN <<actor_username>> ELSE <<>>)

\* the module's notification_service is built with the default channels
publish_device_notification(st, actor_username, device_id, faults, event_id, t) ==
    publish(st, DefaultChannels,
            resolve_notification_recipients_for_device(device_id, actor_username),
            actor_username, device_id, faults, event_id, t)

\* A handler's side notification. A fault with the field raises set makes the call
\* raise before the loop over the channels, where publish catches nothing.
PublishRaises(faults) == "raises" \in DOMAIN faults /\ faults.raises

SideFaults(username) ==
    {f @@ [raises |-> FALSE] : f \in Faults(<<username>>)}
        \cup {NoFaults @@ [raises |-> TRUE]}

\* the call made without the try around it: the exception leaves the handler
TryPublishUncaught(st, actor_username, device_id, faults, event_id, t) ==
    IF PublishRaises(faults) THEN [st |-> st, result |-> None, uncaught |-> TRUE]
    ELSE [uncaught |-> FALSE]
            @@ publish_device_notification(st, actor_username, device_id, faults,
                                           event_id, t)

\* try: publish_device_notification(...) except Exception: the handler goes on
TryPublish(st, actor_username, device_id, faults, event_id, t) ==
    IF PublishRaises(faults) THEN [st |-> st, result |-> None, uncaught |-> FALSE]
    ELSE [uncaught |-> FALSE]
            @@ publish_device_notification(st, actor_username, device_id, faults,
                                           event_id, t)

\* a request without a user answered like any other
NotLoggedInAccepted(op) == [op |-> op, username |-> "", code |-> 200]

NotLoggedIn(op) == [op |-> op, username |-> "", code |-> 401]

PresetInputs == {"", "video_recorded", "bogus"}
Presets == {"package_detected", "door_left_open", "device_offline", "video_recorded"}
\* (data.get("preset") or "package_detected").strip()
NormalizePreset(raw) == IF raw = "" THEN "package_detected" ELSE raw

api_device_demo_notify(username, device_id, raw, faults) ==
    /\ IF ~Truthy(username)
       THEN /\ resp' = NotLoggedIn("demo_notify")
            /\ UNCHANGED <<uuids, notification_events, inbox>>
       ELSE IF NormalizePreset(raw) \notin Presets
       THEN /\ resp' = [op |-> "demo_notify", username |-> username, code |-> 400]
            /\ UNCHANGED <<uuids, notification_events, inbox>>
       ELSE LET r == publish_device_notification(Store, username, device_id, faults,
                                                 uuids + 1, now)
            IN /\ uuids < MaxEvents
               /\ uuids' = uuids + 1
               /\ notification_events' = r.st.events
               /\ inbox' = r.st.inbox
               /\ resp' = [op |-> "demo_notify", username |-> username, code |-> 200,
                           preset |-> NormalizePreset(raw), faults |-> faults,
                           notification |-> r.result]
    /\ UNCHANGED <<now, channels, mediaVars, userVars>>

----------------------------------------------------------------------------
(* Inbox lifecycle *)

\* an update that sets the flag and forgets read_at
ReadUpdateNoStamp(t) == [read |-> TRUE, updated_at |-> t]
\* an update that forgets updated_at
ReadUpdateNoUpdatedAt(t) == [read |-> TRUE, read_at |-> Some(t)]

ReadUpdate(t) == [read |-> TRUE, read_at |-> Some(t), updated_at |-> t]

api_notifications_mark_read(username, notification_id) ==
    /\ IF ~Truthy(username)
       THEN /\ resp' = NotLoggedIn("mark_read")
            /\ UNCHANGED inbox
       ELSE IF notification_id \notin DOMAIN inbox[username]
       THEN /\ resp' = [op |-> "mark_read", username |-> username,
                        notification_id |-> notification_id, code |-> 404]
            /\ UNCHANGED inbox
       ELSE /\ inbox' = [inbox EXCEPT ![username] =
                            Put(@, notification_id,
                                Merge(@[notification_id], ReadUpdate(now)))]
            /\ resp' = [op |-> "mark_read", username |-> username,
                        notification_id |-> notification_id, code |-> 200]
    /\ UNCHANGED <<now, uuids, channels, notification_events, mediaVars, userVars>>

Unread(docs) == {id \in DOMAIN docs : docs[id].read = FALSE}
ReadDocs(docs) == {id \in DOMAIN docs : docs[id].read = TRUE}

api_notifications_unread_count(username) ==
    /\ resp' = IF ~Truthy(username) THEN NotLoggedIn("unread_count")
               ELSE [op |-> "unread_count", username |-> username, code |-> 200,
                     unread_count |-> Cardinality(Unread(inbox[username]))]
    /\ UNCHANGED <<now, uuids, channels, notification_events, inbox, mediaVars, userVars>>

\* a batch that loses its last update
BatchUpdateButLast(docs, ids, fields) ==
    [id \in DOMAIN docs |->
        IF id \in ids /\ \E other \in ids : other > id THEN Merge(docs[id], fields)
        ELSE docs[id]]

\* one batch of updates, committed together
BatchUpdate(docs, ids, fields) ==
    [id \in DOMAIN docs |-> IF id \in ids THEN Merge(docs[id], fields) ELSE docs[id]]

\* "Firestore batched writes support up to 500 ops per batch."
FIRESTORE_BATCH_MAX == 500

\* what the store does with a commit of n operations: it takes it, or, when n is over
\* the ceiling, it may refuse it, and batch.commit() raises
CommitOutcomes(n) == IF n > FIRESTORE_BATCH_MAX THEN BOOLEAN ELSE {TRUE}

\* the batch over the unread entries that were streamed, and the answer; nothing is
\* committed for an empty batch, and a commit that raises leaves the handler uncaught
MarkAllApply(username, docs, committed) ==
    /\ inbox' = IF committed
                THEN [inbox EXCEPT ![username] =
                         BatchUpdate(@, {docs[i] : i \in 1..Len(docs)}, ReadUpdate(now))]
                ELSE inbox
    /\ resp' = IF committed
               THEN [op |-> "mark_all_read", username |-> username, code |-> 200,
                     updated_count |-> Len(docs),
                     batches |-> IF docs = <<>> THEN <<>> ELSE <<docs>>]
               ELSE [op |-> "mark_all_read", username |-> username, code |-> 500,
                     batches |-> <<docs>>]

MarkAllRun(username, docs) ==
    \E committed \in CommitOutcomes(Len(docs)) : MarkAllApply(username, docs, committed)

api_notifications_mark_all_read(username) ==
    /\ IF ~Truthy(username)
       THEN /\ resp' = NotLoggedIn("mark_all_read")
            /\ UNCHANGED inbox
       ELSE MarkAllRun(username, SortedIds(Unread(inbox[username])))
    /\ UNCHANGED <<now, uuids, channels, notification_events, mediaVars, userVars>>

\* a mode that is a JSON number and no string, the number 7
NumberMode == "<7>"
\* (7).strip() raises AttributeError
StripRaises(raw) == raw = NumberMode

\* request bodies of clear: no mode, and modes as sent
ModeInputs == {"", "read", "all", " All ", "purge", NumberMode}
\* (data.get("mode") or "read").strip().lower()
NormalizeMode(raw) ==
    CASE raw = "" -> "read"
      [] raw = " All " -> "all"
      [] OTHER -> raw

Min(a, b) == IF a < b THEN a ELSE b

\* one commit for everything that was found
ClearChunksOneBatch(found, i, acc) ==
    [docs |-> Remove(acc.docs, {found[k] : k \in 1..Len(found)}),
     total |-> acc.total + Len(found),
     batches |-> IF found = <<>> THEN acc.batches ELSE Append(acc.batches, found)]

\* the chunk loop of clear from index i (0-based) on; acc is [docs, total, batches],
\* batches the deletes of each batch.commit() so far
RECURSIVE ClearChunks(_, _, _)
ClearChunks(found, i, acc) ==
    IF i >= Len(found) THEN acc
    ELSE LET chunk == SubSeq(found, i + 1, Min(i + BATCH_SIZE, Len(found)))
         IN ClearChunks(found, i + BATCH_SIZE,
                [docs |-> Remove(acc.docs, {chunk[k] : k \in 1..Len(chunk)}),
                 total |-> acc.total + Len(chunk),
                 batches |-> Append(acc.batches, chunk)])

\* a selection that ignores the mode
ClearSelectionAll(docs, mode) == SortedIds(DOMAIN docs)

ClearSelection(docs, mode) ==
    SortedIds(IF mode = "read" THEN ReadDocs(docs) ELSE DOMAIN docs)

ClearApply(username, raw, mode, found, done) ==
    /\ inbox' = [inbox EXCEPT ![username] = done.docs]
    /\ resp' = [op |-> "clear", username |-> username, raw |-> raw,
                code |-> 200, mode |-> mode,
                message |-> IF found = <<>> THEN "Nothing to clear"
                            ELSE "Notifications cleared",
                cleared_count |-> done.total,
                batches |-> done.batches]

ClearRun(username, raw, mode, found) ==
    ClearApply(username, raw, mode, found,
               ClearChunks(found, 0, [docs |-> inbox[username], total |-> 0,
                                      batches |-> <<>>]))

api_notifications_clear(username, raw) ==
    /\ IF ~Truthy(username)
       THEN /\ resp' = NotLoggedIn("clear")
            /\ UNCHANGED inbox
       ELSE IF StripRaises(raw)
       THEN /\ resp' = [op |-> "clear", username |-> username, raw |-> raw, code |-> 500]
            /\ UNCHANGED inbox
       ELSE IF NormalizeMode(raw) \notin {"all", "read"}
       THEN /\ resp' = [op |-> "clear", username |-> username, raw |-> raw, code |-> 400]
            /\ UNCHANGED inbox
       ELSE ClearRun(username, raw, NormalizeMode(raw),
                     ClearSelection(inbox[username], NormalizeMode(raw)))
    /\ UNCHANGED <<now, uuids, channels, notification_events, mediaVars, userVars>>

----------------------------------------------------------------------------
(* The clock *)

Tick ==
    /\ now < MaxClock
    /\ now' = now + 1
    /\ UNCHANGED <<uuids, channels, notification_events, inbox, mediaVars, resp, userVars>>

----------------------------------------------------------------------------
(* Paths: a path string is a sequence of tokens, "/" the separator *)

BASE_DIR == <<"/", "proj">>

\* pathlib's base / rel: an absolute rel replaces base
PathJoin(base, rel) ==
    IF rel # <<>> /\ rel[1] = "/" THEN rel ELSE base \o <<"/">> \o rel

UPLOAD_ROOT == PathJoin(PathJoin(BASE_DIR, <<"src">>), <<"uploads">>)

\* the segments of a path string, empty ones dropped
RECURSIVE Segments(_)
Segments(s) ==
    IF s = <<>> THEN <<>>
    ELSE LET seps == {i \in 1..Len(s) : s[i] = "/"}
             k == IF seps = {} THEN Len(s) + 1
                  ELSE CHOOSE i \in seps : \A j \in seps : i <= j
             head == SubSeq(s, 1, k - 1)
             rest == Segments(SubSeq(s, k + 1, Len(s)))
         IN IF head = <<>> THEN rest ELSE <<head>> \o rest

\* Path.resolve() on an absolute path without symbolic links: "." and ".." are worked out
RECURSIVE ResolveSegments(_)
ResolveSegments(segs) ==
    IF segs = <<>> THEN <<>>
    ELSE LET front == ResolveSegments(SubSeq(segs, 1, Len(segs) - 1))
             last == segs[Len(segs)]
         IN IF last = <<".">> THEN front
            ELSE IF last = <<"..">>
            THEN (IF front = <<>> THEN <<>> ELSE SubSeq(front, 1, Len(front) - 1))
            ELSE Append(front, last)

RECURSIVE PathString(_)
PathString(segs) ==
    IF segs = <<>> THEN <<>>
    ELSE PathString(SubSeq(segs, 1, Len(segs) - 1)) \o <<"/">> \o segs[Len(segs)]

Resolve(s) ==
    LET segs == ResolveSegments(Segments(s))
    IN IF segs = <<>> THEN <<"/">> ELSE PathString(segs)

\* str.startswith
StartsWith(s, prefix) ==
    /\ Len(s) >= Len(prefix)
    /\ SubSeq(s, 1, Len(prefix)) = prefix

\* Path.relative_to(base), as a string
RelativeTo(path, base) == SubSeq(path, Len(base) + 2, Len(path))

----------------------------------------------------------------------------
(* Ephemeral media registry *)

MEDIA_TTL_SECONDS == 180
MEDIA_LIST_LIMIT == 50

MaxUploads == 1       \* uploads in a run, beside the records found in the store

DeviceIds == {"demo123", "shed"}
ALLOWED_IMAGE_EXTS == {".jpg", ".jpeg", ".png", ".gif", ".webp"}

\* the file of the request: none selected, or its name
FileInputs == {"", "Cat.PNG", "run.exe"}
\* Path(secure_filename(name)).suffix.lower()
Suffix(name) ==
    CASE name = "Cat.PNG" -> ".png"
      [] name = "run.exe" -> ".exe"
      [] OTHER -> ""

StoredPath(device_id, stored_filename) ==
    PathJoin(PathJoin(UPLOAD_ROOT, <<"device_", device_id>>), stored_filename)

\* a record whose expiry is counted from one second after the registration
MediaDocLateExpiry(device_id, username, original_name, stored_filename, t) ==
    [device_id |-> device_id,
     uploaded_by |-> username,
     original_filename |-> original_name,
     stored_filename |-> stored_filename,
     relative_path |-> RelativeTo(StoredPath(device_id, stored_filename), BASE_DIR),
     created_at |-> t,
     expires_at |-> Some(t + 1 + MEDIA_TTL_SECONDS),
     ttl_seconds |-> MEDIA_TTL_SECONDS]

MediaDoc(device_id, username, original_name, stored_filename, t) ==
    [device_id |-> device_id,
     uploaded_by |-> username,
     original_filename |-> original_name,
     stored_filename |-> stored_filename,
     relative_path |-> RelativeTo(StoredPath(device_id, stored_filename), BASE_DIR),
     created_at |-> t,
     expires_at |-> Some(t + MEDIA_TTL_SECONDS),
     ttl_seconds |-> MEDIA_TTL_SECONDS]

\* the uuid4() values that stand for the records found in the store
SeedIds == 1..(MEDIA_LIST_LIMIT + 3)
MaxUuid == MEDIA_LIST_LIMIT + 3 + 2 * MaxUploads

api_device_upload_image(username, device_id, filename, faults) ==
    /\ IF ~Truthy(username)
       THEN /\ resp' = NotLoggedIn("upload") @@ [at |-> now, file |-> filename]
            /\ UNCHANGED <<uuids, notification_events, inbox, mediaVars>>
       ELSE IF filename = ""
       THEN /\ resp' = [op |-> "upload", username |-> username, code |-> 400,
                        error |-> "No file selected.", at |-> now, file |-> filename]
            /\ UNCHANGED <<uuids, notification_events, inbox, mediaVars>>
       ELSE IF Suffix(filename) \notin ALLOWED_IMAGE_EXTS
       THEN /\ resp' = [op |-> "upload", username |-> username, code |-> 400,
                        error |-> "Unsupported file type", at |-> now, file |-> filename]
            /\ UNCHANGED <<uuids, notification_events, inbox, mediaVars>>
       ELSE LET upload_id == uuids + 1
                stored_filename == <<ToString(upload_id), Suffix(filename)>>
                r == TryPublish(Store, username, device_id, faults, uuids + 2, now)
            IN /\ uuids + 2 <= MaxUuid
               /\ uuids' = uuids + 2
               /\ files' = files \cup {StoredPath(device_id, stored_filename)}
               /\ media_uploads' = Put(media_uploads, upload_id,
                                       MediaDoc(device_id, username, filename,
                                                stored_filename, now))
               /\ notification_events' = r.st.events
               /\ inbox' = r.st.inbox
               /\ resp' = IF r.uncaught
                          THEN [op |-> "upload", username |-> username, code |-> 500,
                                at |-> now, file |-> filename, faults |-> faults]
                          ELSE [op |-> "upload", username |-> username, code |-> 201,
                                upload_id |-> upload_id, device_id |-> device_id,
                                original_filename |-> filename,
                                expires_in_seconds |-> MEDIA_TTL_SECONDS, at |-> now,
                                file |-> filename, faults |-> faults]
    /\ UNCHANGED <<now, channels, userVars>>

\* the body of the command request: whether it is JSON, and its command
CommandInputs == {"open", "close", "dance"}

api_device_command(username, device_id, is_json, cmd, faults) ==
    /\ IF ~Truthy(username)
       THEN /\ resp' = NotLoggedIn("command") @@ [is_json |-> is_json, command |-> cmd]
            /\ UNCHANGED <<uuids, notification_events, inbox>>
       ELSE IF ~is_json
       THEN /\ resp' = [op |-> "command", username |-> username, code |-> 415,
                        is_json |-> is_json, command |-> cmd]
            /\ UNCHANGED <<uuids, notification_events, inbox>>
       ELSE IF cmd \notin {"open", "close"}
       THEN /\ resp' = [op |-> "command", username |-> username, code |-> 400,
                        is_json |-> is_json, command |-> cmd]
            /\ UNCHANGED <<uuids, notification_events, inbox>>
       ELSE LET r == TryPublish(Store, username, device_id, faults, uuids + 1, now)
            IN /\ uuids + 1 <= MaxUuid
               /\ uuids' = uuids + 1
               /\ notification_events' = r.st.events
               /\ inbox' = r.st.inbox
               /\ resp' = [op |-> "command", username |-> username,
                           code |-> IF r.uncaught THEN 500 ELSE 200,
                           is_json |-> is_json, command |-> cmd, device_id |-> device_id,
                           faults |-> faults, notification |-> r.result]
    /\ UNCHANGED <<now, channels, mediaVars, userVars>>

\* The records that the store holds from the start: MEDIA_LIST_LIMIT uploads of device
\* "demo123" made by this program at time 0, and three records of device "shed" written
\* by another holder of the store (another machine, another revision). No route changes
\* or deletes a record or a file, so the variables media_uploads and files hold what the
\* run has added and the collection and the disk are these together with the seeds.
SeedUpload(id) == MediaDoc("demo123", "alice", "Cat.PNG", <<ToString(id), ".png">>, 0)

ForeignDoc(relative_path) ==
    [MediaDoc("shed", "bob", "Cat.PNG", <<"x.png">>, 0) EXCEPT !.relative_path = relative_path]

SiblingPath == <<"src", "/", "uploads", "_old", "/", "a.png">>
OutsidePath == <<"..", "/", "outside", "/", "b.png">>
AbsentPath == <<"src", "/", "uploads", "/", "device_", "shed", "/", "c.png">>

SiblingId == MEDIA_LIST_LIMIT + 1
OutsideId == MEDIA_LIST_LIMIT + 2
AbsentId == MEDIA_LIST_LIMIT + 3

SeedStore ==
    [id \in SeedIds |->
        CASE id = SiblingId -> ForeignDoc(SiblingPath)
          [] id = OutsideId -> ForeignDoc(OutsidePath)
          [] id = AbsentId -> ForeignDoc(AbsentPath)
          [] OTHER -> SeedUpload(id)]

SeedFiles ==
    {Resolve(PathJoin(BASE_DIR, SeedStore[id].relative_path)) : id \in 1..MEDIA_LIST_LIMIT}
    \cup {Resolve(PathJoin(BASE_DIR, SiblingPath)), Resolve(PathJoin(BASE_DIR, OutsidePath))}

\* db.collection("media_uploads"), and the files that exist
Registry(written) == written @@ SeedStore
Disk(written) == written \cup SeedFiles

\* y comes before x under order_by("created_at", DESCENDING): the later one first, equal
\* times in descending document-id order
Newer(coll, y, x) ==
    \/ coll[y].created_at > coll[x].created_at
    \/ coll[y].created_at = coll[x].created_at /\ y > x

\* the values of created_at among the records ids, the latest first
RECURSIVE LatestFirst(_)
LatestFirst(times) ==
    IF times = {} THEN <<>>
    ELSE LET latest == CHOOSE t \in times : \A u \in times : u <= t
         IN <<latest>> \o LatestFirst(times \ {latest})

Reverse(seq) == [i \in 1..Len(seq) |-> seq[Len(seq) + 1 - i]]

\* the records of each time from times[i] on, in the order of descending
RECURSIVE ByTime(_, _, _, _)
ByTime(coll, descending, times, i) ==
    IF i > Len(times) THEN <<>>
    ELSE SelectSeq(descending, LAMBDA id : coll[id].created_at = times[i])
            \o ByTime(coll, descending, times, i + 1)

\* order_by created_at descending: later records first, and among the records of one
\* time the greater document id first
NewestFirst(coll, ids) ==
    ByTime(coll, Reverse(SortedIds(ids)), LatestFirst({coll[id].created_at : id \in ids}), 1)

Limit(docs, n) == SubSeq(docs, 1, Min(n, Len(docs)))

\* the query of the list route
MediaQuery(coll, device_id) ==
    Limit(NewestFirst(coll, {id \in DOMAIN coll : coll[id].device_id = device_id}),
          MEDIA_LIST_LIMIT)

\* an expiry test that lets the last instant pass
ExpiredStrict(doc, t) ==
    /\ doc.expires_at # None
    /\ doc.expires_at[1] < t

\* a stored expires_at that is a datetime at or before t
Expired(doc, t) ==
    /\ doc.expires_at # None
    /\ doc.expires_at[1] <= t

\* the records of the query that have not expired at t
LiveItems(coll, device_id, t) ==
    SelectSeq(MediaQuery(coll, device_id), LAMBDA id : ~Expired(coll[id], t))

ListResponse(username, device_id, items, t) ==
    [op |-> "media_list", username |-> username, code |-> 200,
     device_id |-> device_id, count |-> Len(items), items |-> items, at |-> t]

api_media_list(username, device_id) ==
    /\ resp' = IF ~Truthy(username) THEN NotLoggedIn("media_list") @@ [at |-> now]
               ELSE IF device_id = ""
               THEN [op |-> "media_list", username |-> username, code |-> 400, at |-> now]
               ELSE ListResponse(username, device_id,
                                 LiveItems(Registry(media_uploads), device_id, now), now)
    /\ UNCHANGED <<now, uuids, channels, notification_events, inbox, mediaVars, userVars>>

\* the path check of the download route
PathAllowed(abs_path) == StartsWith(abs_path, Resolve(UPLOAD_ROOT))

DownloadResult(coll, disk, upload_id, t) ==
    IF upload_id \notin DOMAIN coll THEN [code |-> 404, error |-> "Not found"]
    ELSE LET data == coll[upload_id]
             abs_path == Resolve(PathJoin(BASE_DIR, data.relative_path))
         IN IF Expired(data, t) THEN [code |-> 410, error |-> "File expired"]
            ELSE IF data.relative_path = <<>>
            THEN [code |-> 500, error |-> "Missing relative_path in metadata"]
            ELSE IF ~PathAllowed(abs_path) THEN [code |-> 400, error |-> "Invalid path"]
            ELSE IF abs_path \notin disk THEN [code |-> 410, error |-> "File missing on server"]
            ELSE [code |-> 200, error |-> "", file |-> abs_path]

api_media_download(username, upload_id) ==
    /\ resp' = IF ~Truthy(username) THEN NotLoggedIn("media_download") @@ [at |-> now]
               ELSE [op |-> "media_download", username |-> username,
                     upload_id |-> upload_id, at |-> now]
                    @@ DownloadResult(Registry(media_uploads), Disk(files), upload_id, now)
    /\ UNCHANGED <<now, uuids, channels, notification_events, inbox, mediaVars, userVars>>

\* time passes until a record is about to expire, or has just expired
WaitSteps == {MEDIA_TTL_SECONDS - 1, MEDIA_TTL_SECONDS}
Wait(d) ==
    /\ now + d <= MaxClock + MEDIA_TTL_SECONDS
    /\ now' = now + d
    /\ UNCHANGED <<uuids, channels, notification_events, inbox, mediaVars, resp, userVars>>

----------------------------------------------------------------------------
(* Inbox listing: request arguments are strings, here sequences of characters *)

INBOX_LIST_MAX == 100
Digits == {"0", "1", "2", "3", "4", "5", "6", "7", "8", "9"}

DigitValue(c) ==
    CASE c = "0" -> 0 [] c = "1" -> 1 [] c = "2" -> 2 [] c = "3" -> 3 [] c = "4" -> 4
      [] c = "5" -> 5 [] c = "6" -> 6 [] c = "7" -> 7 [] c = "8" -> 8 [] c = "9" -> 9

\* str.strip() for the blank
RECURSIVE Strip(_)
Strip(s) ==
    IF s = <<>> THEN s
    ELSE IF s[1] = " " THEN Strip(Tail(s))
    ELSE IF s[Len(s)] = " " THEN Strip(SubSeq(s, 1, Len(s) - 1))
    ELSE s

\* the digits of an integer literal read from the left; underscores carry no value
RECURSIVE DigitsValue(_, _)
DigitsValue(body, acc) ==
    IF body = <<>> THEN acc
    ELSE IF body[1] = "_" THEN DigitsValue(Tail(body), acc)
    ELSE DigitsValue(Tail(body), 10 * acc + DigitValue(body[1]))

\* what int() accepts after the sign: digits, single underscores only between digits
IsIntBody(body) ==
    /\ body # <<>>
    /\ \A i \in 1..Len(body) : body[i] \in Digits \cup {"_"}
    /\ body[1] \in Digits
    /\ body[Len(body)] \in Digits
    /\ \A i \in 1..(Len(body) - 1) : ~(body[i] = "_" /\ body[i + 1] = "_")

\* int(text): Some(n), or None for ValueError
SignedInt(t) ==
    IF t # <<>> /\ t[1] \in {"+", "-"}
    THEN (IF ~IsIntBody(Tail(t)) THEN None
          ELSE IF t[1] = "-" THEN Some(0 - DigitsValue(Tail(t), 0))
          ELSE Some(DigitsValue(Tail(t), 0)))
    ELSE IF IsIntBody(t) THEN Some(DigitsValue(t, 0)) ELSE None

ParseInt(text) == SignedInt(Strip(text))

Max(a, b) == IF a > b THEN a ELSE b

\* a clamp from above only
ClampLimitNoFloor(limit) == Min(limit, INBOX_LIST_MAX)

\* limit = max(1, min(limit, 100))
ClampLimit(limit) == Max(1, Min(limit, INBOX_LIST_MAX))

LowerChar(c) ==
    CASE c = "T" -> "t" [] c = "R" -> "r" [] c = "U" -> "u" [] c = "E" -> "e"
      [] c = "Y" -> "y" [] c = "S" -> "s" [] c = "N" -> "n" [] c = "O" -> "o"
      [] OTHER -> c

\* str.lower()
Lower(text) == [i \in 1..Len(text) |-> LowerChar(text[i])]

\* request.args.get(key, default)
ArgsGet(args, key, default) == IF key \in DOMAIN args THEN args[key] ELSE default

UnreadOnly(args) ==
    Lower(ArgsGet(args, "unread_only", <<"f", "a", "l", "s", "e">>))
        \in {<<"1">>, <<"t", "r", "u", "e">>, <<"y", "e", "s">>}

\* the query of the inbox list route
InboxQuery(coll, unread_only, limit) ==
    Limit(NewestFirst(coll, IF unread_only THEN Unread(coll) ELSE DOMAIN coll), limit)

ListAnswer(username, parsed, items) ==
    IF parsed = None
    THEN [op |-> "list", username |-> username, code |-> 400,
          error |-> "limit must be an integer"]
    ELSE [op |-> "list", username |-> username, code |-> 200,
          count |-> Len(items), items |-> items]

InboxListResult(username, parsed, unread_only) ==
    ListAnswer(username, parsed,
               IF parsed = None THEN <<>>
               ELSE InboxQuery(inbox[username], unread_only, ClampLimit(parsed[1])))

api_notifications_list(username, args) ==
    /\ resp' = [args |-> args] @@
                 (IF ~Truthy(username) THEN NotLoggedIn("list")
                  ELSE InboxListResult(username, ParseInt(ArgsGet(args, "limit", <<"2", "0">>)),
                                       UnreadOnly(args)))
    /\ UNCHANGED <<now, uuids, channels, notification_events, inbox, mediaVars, userVars>>

----------------------------------------------------------------------------
(* Specifications *)

EmptyColl == [x \in {} |-> None]
NotifyDevices == {"demo123"}

InitNotifications ==
    /\ now = 0
    /\ uuids = 0
    /\ notification_events = EmptyColl
    /\ inbox = [u \in Usernames |-> EmptyColl]
    /\ media_uploads = EmptyColl
    /\ files = {}
    /\ resp = [op |-> "none"]
    /\ calls = NoCalls
    /\ USERS = LoadedUsers

\* The application's notification routes, on the module's notification_service
Init ==
    /\ InitNotifications
    /\ channels = DefaultChannels

Next ==
    \/ \E username \in Principals, device_id \in NotifyDevices, raw \in PresetInputs :
          \E faults \in InboxFaults(<<username>>) :
             api_device_demo_notify(username, device_id, raw, faults)
    \/ \E username \in Principals, id \in EventIds : api_notifications_mark_read(username, id)
    \/ \E username \in Principals : api_notifications_unread_count(username)
    \/ \E username \in Principals : api_notifications_mark_all_read(username)
    \/ \E username \in Principals, raw \in ModeInputs : api_notifications_clear(username, raw)
    \/ Tick

Spec == Init /\ [][Next]_vars

\* NotificationService.publish called on a service built with any of the channel lists
InitPublish ==
    /\ InitNotifications
    /\ channels \in ChannelConfigs

NextPublish ==
    \/ \E recipients \in RecipientLists : \E faults \in Faults(recipients) :
          Publish(recipients, faults)
    \/ Tick

SpecPublish == InitPublish /\ [][NextPublish]_vars

\* A delivery repeated: FirestoreUserInboxChannel.deliver called again with the payload
\* of an event that the recipient's inbox already holds
PayloadFields ==
    {"schema_version", "event_id", "actor_username", "device_id", "created_at_client_iso"}

InboxChannelRedeliver(username, event_id) ==
    /\ event_id \in DOMAIN inbox[username]
    /\ LET doc == inbox[username][event_id]
           payload == [k \in PayloadFields |-> doc[k]]
           d == InboxDeliver(Store, payload, <<username>>, [log |-> FALSE, inbox |-> 1], now)
       IN /\ inbox' = d.st.inbox
          /\ resp' = [op |-> "inbox_deliver", username |-> username,
                      event_id |-> event_id] @@ d.result
    /\ UNCHANGED <<now, uuids, channels, notification_events, mediaVars, userVars>>

NextRetry ==
    \/ \E username \in Principals, device_id \in NotifyDevices, raw \in PresetInputs :
          \E faults \in Faults(<<username>>) :
             api_device_demo_notify(username, device_id, raw, faults)
    \/ \E username \in Principals, id \in EventIds : api_notifications_mark_read(username, id)
    \/ \E username \in Usernames, id \in EventIds : InboxChannelRedeliver(username, id)
    \/ Tick

SpecRetry == Init /\ [][NextRetry]_vars

\* the ids asked for: the oldest seeded upload, the foreign records, the uploads of the
\* run, and an id that no record has
DownloadIds == {1} \cup ((MEDIA_LIST_LIMIT + 1)..(MaxUuid + 1))

\* The media routes, on the seeded store and disk; the notification of an upload is
\* delivered without a failure
InitMedia ==
    /\ now = 0
    /\ uuids = MEDIA_LIST_LIMIT + 3
    /\ channels = DefaultChannels
    /\ notification_events = EmptyColl
    /\ inbox = [u \in Usernames |-> EmptyColl]
    /\ media_uploads = EmptyColl
    /\ files = {}
    /\ resp = [op |-> "none"]
    /\ calls = NoCalls
    /\ USERS = LoadedUsers

NextMedia ==
    \/ \E username \in Principals, device_id \in DeviceIds, filename \in FileInputs :
          api_device_upload_image(username, device_id, filename, NoFaults)
    \/ \E username \in Principals, device_id \in DeviceIds \cup {""} :
          api_media_list(username, device_id)
    \/ \E username \in Principals, upload_id \in DownloadIds :
          api_media_download(username, upload_id)
    \/ Tick
    \/ \E d \in WaitSteps : Wait(d)

SpecMedia == InitMedia /\ [][NextMedia]_vars

\* The channels' deliver called on its own, beside publish
StubChannels == {"web_push_stub", "mobile_push_stub"}

StubChannelDeliver(name, recipients) ==
    LET d == Deliver(name, Store, BuildPayload(uuids + 1, "alice", "demo123", now),
                     recipients, NoFaults, now)
    IN /\ notification_events' = d.st.events
       /\ inbox' = d.st.inbox
       /\ resp' = [op |-> "stub_deliver", recipients |-> recipients] @@ d.result
       /\ UNCHANGED <<now, uuids, channels, mediaVars, userVars>>

\* the payload of an event: the one that the log holds, or a new one
EventPayload(event_id) ==
    IF event_id \in DOMAIN notification_events
    THEN [k \in PayloadFields |-> notification_events[event_id][k]]
    ELSE BuildPayload(event_id, "alice", "demo123", now)

LogRecipients == {<<"alice">>, <<"bob", "alice">>}

EventLogChannelDeliver(event_id, recipients) ==
    LET d == EventLogDeliver(Store, EventPayload(event_id), recipients, NoFaults, now)
    IN /\ notification_events' = d.st.events
       /\ inbox' = d.st.inbox
       /\ resp' = [op |-> "log_deliver", event_id |-> event_id,
                   recipients |-> recipients] @@ d.result
       /\ UNCHANGED <<now, uuids, channels, mediaVars, userVars>>

\* the placeholders called with every recipient list, beside publish
NextStubs ==
    \/ \E recipients \in LogRecipients :
          Publish(recipients, [log |-> FALSE, inbox |-> Len(recipients)])
    \/ \E name \in StubChannels, recipients \in RecipientLists :
          StubChannelDeliver(name, recipients)

SpecStubs == Init /\ [][NextStubs]_vars

\* the event-log channel delivering events again as time passes, beside publish
NextEventLog ==
    \/ \E recipients \in LogRecipients :
          Publish(recipients, [log |-> FALSE, inbox |-> Len(recipients)])
    \/ \E event_id \in EventIds, recipients \in LogRecipients :
          EventLogChannelDeliver(event_id, recipients)
    \/ Tick

SpecEventLog == Init /\ [][NextEventLog]_vars

\* The resolver called on its own, beside the demo route that calls it; "" stands for
\* a device_id or an actor that is empty or missing
ResolveDevices == DeviceIds \cup {""}

ResolveCall(device_id, actor_username) ==
    /\ resp' = [op |-> "resolve", device_id |-> device_id,
                actor_username |-> actor_username,
                recipients |->
                   resolve_notification_recipients_for_device(device_id, actor_username)]
    /\ UNCHANGED <<now, uuids, channels, notification_events, inbox, mediaVars, userVars>>

NextResolve ==
    \/ \E device_id \in ResolveDevices, actor_username \in Principals :
          ResolveCall(device_id, actor_username)
    \/ \E username \in Principals, device_id \in NotifyDevices, raw \in PresetInputs :
          api_device_demo_notify(username, device_id, raw, NoFaults)
    \/ Tick

SpecResolve == Init /\ [][NextResolve]_vars

\* The routes that notify on the side, their side publish failing in every way
NextSide ==
    \/ \E username \in Principals, device_id \in NotifyDevices, filename \in FileInputs :
          \E faults \in SideFaults(username) :
             api_device_upload_image(username, device_id, filename, faults)
    \/ \E username \in Principals, device_id \in NotifyDevices, is_json \in BOOLEAN,
             cmd \in CommandInputs :
          \E faults \in SideFaults(username) :
             api_device_command(username, device_id, is_json, cmd, faults)

SpecSide == InitMedia /\ [][NextSide]_vars

\* The inbox list route on an inbox that holds one entry more than the largest limit:
\* alice's entries, delivered at the times 0..MaxClock, bob's inbox empty
InboxSeedIds == (MaxEvents + 1)..(MaxEvents + INBOX_LIST_MAX + 1)

InboxSeedDoc(id) ==
    InboxDoc(BuildPayload(id, "alice", "demo123", id % (MaxClock + 1)), "alice",
             id % (MaxClock + 1))

InboxSeed == [u \in Usernames |->
                IF u = "alice" THEN [id \in InboxSeedIds |-> InboxSeedDoc(id)]
                ELSE EmptyColl]

LimitTexts ==
    {<<"5", "0", "0">>, <<"2">>, <<"0">>, <<"-", "3">>, <<"a", "b", "c">>,
     <<"1", ".", "5">>, <<>>}
UnreadTexts == {<<"T", "R", "U", "E">>}

NoArgs == [k \in {} |-> <<>>]
ListArgs ==
    {a @@ b : a \in {NoArgs} \cup {[k \in {"limit"} |-> t] : t \in LimitTexts},
              b \in {NoArgs} \cup {[k \in {"unread_only"} |-> t] : t \in UnreadTexts}}

\* the entries asked to be marked: the first and the last of the seeded ones, and one
\* that does not exist
MarkIds == {MaxEvents, MaxEvents + 1, MaxEvents + INBOX_LIST_MAX + 1}

InitInbox ==
    /\ now = MaxClock
    /\ uuids = MaxEvents + INBOX_LIST_MAX + 1
    /\ channels = DefaultChannels
    /\ notification_events = EmptyColl
    /\ inbox = InboxSeed
    /\ media_uploads = EmptyColl
    /\ files = {}
    /\ resp = [op |-> "none"]
    /\ calls = NoCalls
    /\ USERS = LoadedUsers

NextInbox ==
    \/ \E username \in Principals, args \in ListArgs : api_notifications_list(username, args)
    \/ \E username \in Principals, id \in MarkIds : api_notifications_mark_read(username, id)
    \/ \E username \in Principals : api_notifications_mark_all_read(username)

SpecInbox == InitInbox /\ [][NextInbox]_vars

\* The inbox routes and the media routes together, on the seeded media store; an
\* upload leaves its notification in the uploader's inbox
RouteListArgs == {NoArgs, [limit |-> <<"1">>]}
RouteMarkIds == (MEDIA_LIST_LIMIT + 4)..MaxUuid

NextRoutes ==
    \/ \E username \in Principals, args \in RouteListArgs :
          api_notifications_list(username, args)
    \/ \E username \in Principals : api_notifications_unread_count(username)
    \/ \E username \in Principals, id \in RouteMarkIds :
          api_notifications_mark_read(username, id)
    \/ \E username \in Principals : api_notifications_mark_all_read(username)
    \/ \E username \in Principals, raw \in ModeInputs : api_notifications_clear(username, raw)
    \/ \E username \in Principals, device_id \in NotifyDevices, filename \in FileInputs :
          api_device_upload_image(username, device_id, filename, NoFaults)
    \/ \E username \in Principals, device_id \in NotifyDevices \cup {""} :
          api_media_list(username, device_id)
    \/ \E username \in Principals, upload_id \in DownloadIds :
          api_media_download(username, upload_id)

SpecRoutes == InitMedia /\ [][NextRoutes]_vars

\* The mark-all-read route on an inbox that holds one unread entry more than a batch
\* may hold: alice's entries, delivered at time 0
MarkAllSeedIds == (MaxEvents + 1)..(MaxEvents + FIRESTORE_BATCH_MAX + 1)

MarkAllSeed == [u \in Usernames |->
                  IF u = "alice"
                  THEN [id \in MarkAllSeedIds |->
                           InboxDoc(BuildPayload(id, "alice", "demo123", 0), "alice", 0)]
                  ELSE EmptyColl]

\* the entries asked to be marked: one that does not exist, and three that do
MarkAllMarkIds == MaxEvents..(MaxEvents + 3)

InitMarkAll ==
    /\ now = 0
    /\ uuids = MaxEvents + FIRESTORE_BATCH_MAX + 1
    /\ channels = DefaultChannels
    /\ notification_events = EmptyColl
    /\ inbox = MarkAllSeed
    /\ media_uploads = EmptyColl
    /\ files = {}
    /\ resp = [op |-> "none"]
    /\ calls = NoCalls
    /\ USERS = LoadedUsers

NextMarkAll ==
    \/ \E username \in Principals : api_notifications_mark_all_read(username)
    \/ \E username \in Principals, id \in MarkAllMarkIds :
          api_notifications_mark_read(username, id)
    \/ \E username \in Principals, raw \in {"read", "all"} :
          api_notifications_clear(username, raw)

SpecMarkAll == InitMarkAll /\ [][NextMarkAll]_vars

\* The clear route on an inbox that takes more than two batches to empty: alice holds
\* 2 * BATCH_SIZE + 1 entries delivered at time 0, every other one read, the first one
\* among them
ClearSeedIds == (MaxEvents + 1)..(MaxEvents + 2 * BATCH_SIZE + 1)

ClearSeedDoc(id) ==
    IF (id - MaxEvents) % 2 = 1
    THEN Merge(InboxDoc(BuildPayload(id, "alice", "demo123", 0), "alice", 0), ReadUpdate(0))
    ELSE InboxDoc(BuildPayload(id, "alice", "demo123", 0), "alice", 0)

ClearSeed == [u \in Usernames |->
                IF u = "alice" THEN [id \in ClearSeedIds |-> ClearSeedDoc(id)]
                ELSE EmptyColl]

\* the entries asked to be marked: one that does not exist, a read one, an unread one
ClearMarkIds == {MaxEvents, MaxEvents + 1, MaxEvents + 2}

InitClear ==
    /\ now = 0
    /\ uuids = MaxEvents + 2 * BATCH_SIZE + 1
    /\ channels = DefaultChannels
    /\ notification_events = EmptyColl
    /\ inbox = ClearSeed
    /\ media_uploads = EmptyColl
    /\ files = {}
    /\ resp = [op |-> "none"]
    /\ calls = NoCalls
    /\ USERS = LoadedUsers

NextClear ==
    \/ \E username \in Principals, raw \in ModeInputs : api_notifications_clear(username, raw)
    \/ \E username \in Principals, id \in ClearMarkIds :
          api_notifications_mark_read(username, id)
    \/ \E username \in Principals : api_notifications_mark_all_read(username)
    \/ Tick

SpecClear == InitClear /\ [][NextClear]_vars

----------------------------------------------------------------------------
\* The inbox routes and a route that publishes, for both users, from empty inboxes
NextIsolation ==
    \/ \E username \in Principals, device_id \in NotifyDevices :
          api_device_demo_notify(username, device_id, "", NoFaults)
    \/ \E username \in Principals, args \in RouteListArgs :
          api_notifications_list(username, args)
    \/ \E username \in Principals : api_notifications_unread_count(username)
    \/ \E username \in Principals, id \in EventIds : api_notifications_mark_read(username, id)
    \/ \E username \in Principals : api_notifications_mark_all_read(username)
    \/ \E username \in Principals, raw \in {"read", "all"} :
          api_notifications_clear(username, raw)

SpecIsolation == Init /\ [][NextIsolation]_vars

----------------------------------------------------------------------------

(* Requests served concurrently: a handler runs as the steps between which another
   request's store operations can fall. app.run(debug=True) serves each request on a
   thread of its own, and the store is shared by every worker. *)

MaxCalls == 3         \* requests served step by step in a run

\* a request starts under the next free call number
NewCall(c) == c = Cardinality(DOMAIN calls) + 1 /\ c <= MaxCalls

\* the request is answered: the handler returned, or raised and the server answers 500
Finish(c, answer) ==
    /\ calls' = Put(calls, c, [at |-> "done"] @@ answer)
    /\ resp' = [call |-> c] @@ answer

\* mark-one-read up to doc_ref.get(): the login check and the existence check
MarkReadGet(c, username, notification_id) ==
    /\ NewCall(c)
    /\ IF ~Truthy(username)
       THEN Finish(c, NotLoggedIn("mark_read"))
       ELSE IF notification_id \notin DOMAIN inbox[username]
       THEN Finish(c, [op |-> "mark_read", username |-> username,
                       notification_id |-> notification_id, code |-> 404])
       ELSE /\ calls' = Put(calls, c, [at |-> "update", op |-> "mark_read",
                                       username |-> username,
                                       notification_id |-> notification_id])
            /\ UNCHANGED resp
    /\ UNCHANGED <<now, uuids, channels, notification_events, inbox, mediaVars, USERS>>

\* mark-one-read from doc_ref.update() on: update() of a document that does not exist
\* raises NotFound, which the handler does not catch
MarkReadUpdate(c) ==
    /\ c \in DOMAIN calls
    /\ calls[c].at = "update"
    /\ LET username == calls[c].username
           notification_id == calls[c].notification_id
       IN IF notification_id \notin DOMAIN inbox[username]
          THEN /\ Finish(c, [op |-> "mark_read", username |-> username,
                             notification_id |-> notification_id, code |-> 500])
               /\ UNCHANGED inbox
          ELSE /\ inbox' = [inbox EXCEPT ![username] =
                               Put(@, notification_id,
                                   Merge(@[notification_id], ReadUpdate(now)))]
               /\ Finish(c, [op |-> "mark_read", username |-> username,
                             notification_id |-> notification_id, code |-> 200])
    /\ UNCHANGED <<now, uuids, channels, notification_events, mediaVars, USERS>>

ClearAnswer(username, raw, found, total, removed) ==
    [op |-> "clear", username |-> username, raw |-> raw, code |-> 200,
     mode |-> NormalizeMode(raw),
     message |-> IF found = <<>> THEN "Nothing to clear" ELSE "Notifications cleared",
     cleared_count |-> total,
     removed |-> removed]

\* clear up to docs = list(q.stream())
ClearQuery(c, username, raw) ==
    /\ NewCall(c)
    /\ IF ~Truthy(username)
       THEN Finish(c, NotLoggedIn("clear"))
       ELSE IF StripRaises(raw)
       THEN Finish(c, [op |-> "clear", username |-> username, raw |-> raw, code |-> 500])
       ELSE IF NormalizeMode(raw) \notin {"all", "read"}
       THEN Finish(c, [op |-> "clear", username |-> username, raw |-> raw, code |-> 400])
       ELSE IF ClearSelection(inbox[username], NormalizeMode(raw)) = <<>>
       THEN Finish(c, ClearAnswer(username, raw, <<>>, 0, 0))
       ELSE /\ calls' = Put(calls, c,
                            [at |-> "commit", op |-> "clear", username |-> username,
                             raw |-> raw,
                             docs |-> ClearSelection(inbox[username], NormalizeMode(raw)),
                             i |-> 0, total_deleted |-> 0, removed |-> 0])
            /\ UNCHANGED resp
    /\ UNCHANGED <<now, uuids, channels, notification_events, inbox, mediaVars, USERS>>

\* the documents of a chunk that are still stored when its batch is committed; the
\* handler does not look at this number
StillStored(username, chunk) ==
    Cardinality({chunk[k] : k \in 1..Len(chunk)} \cap DOMAIN inbox[username])

\* one pass of the chunk loop of clear: a batch of deletes is committed (the delete of a
\* document that is gone succeeds), and after the last chunk the handler answers
ClearCommitChunk(c, call, chunk) ==
    /\ inbox' = [inbox EXCEPT ![call.username] =
                    Remove(@, {chunk[k] : k \in 1..Len(chunk)})]
    /\ IF call.i + BATCH_SIZE >= Len(call.docs)
       THEN Finish(c, ClearAnswer(call.username, call.raw, call.docs,
                                  call.total_deleted + Len(chunk),
                                  call.removed + StillStored(call.username, chunk)))
       ELSE /\ calls' = Put(calls, c,
                            [call EXCEPT !.i = @ + BATCH_SIZE,
                                         !.total_deleted = @ + Len(chunk),
                                         !.removed = @ + StillStored(call.username, chunk)])
            /\ UNCHANGED resp

ClearCommit(c) ==
    /\ c \in DOMAIN calls
    /\ calls[c].at = "commit"
    /\ ClearCommitChunk(c, calls[c],
                        SubSeq(calls[c].docs, calls[c].i + 1,
                               Min(calls[c].i + BATCH_SIZE, Len(calls[c].docs))))
    /\ UNCHANGED <<now, uuids, channels, notification_events, mediaVars, USERS>>

\* alice's inbox holds three entries delivered at time 0, the first and the last read
RaceSeedIds == (MaxEvents + 1)..(MaxEvents + 3)
RaceSeed == [u \in Usernames |->
               IF u = "alice" THEN [id \in RaceSeedIds |-> ClearSeedDoc(id)]
               ELSE EmptyColl]
\* the entries asked to be marked: one that does not exist, a read one, an unread one
RaceMarkIds == {MaxEvents, MaxEvents + 1, MaxEvents + 2}
RacePrincipals == {"alice", ""}
CallIds == 1..MaxCalls

InitRace ==
    /\ now = 0
    /\ uuids = MaxEvents + 3
    /\ channels = DefaultChannels
    /\ notification_events = EmptyColl
    /\ inbox = RaceSeed
    /\ media_uploads = EmptyColl
    /\ files = {}
    /\ resp = [op |-> "none"]
    /\ calls = NoCalls
    /\ USERS = LoadedUsers

NextRace ==
    \/ \E c \in CallIds, username \in RacePrincipals, id \in RaceMarkIds :
          MarkReadGet(c, username, id)
    \/ \E c \in CallIds : MarkReadUpdate(c)
    \/ \E c \in CallIds, username \in RacePrincipals, raw \in ModeInputs :
          ClearQuery(c, username, raw)
    \/ \E c \in CallIds : ClearCommit(c)

\* mark-one-read and clear requests of one principal, served concurrently
SpecRace == InitRace /\ [][NextRace]_vars

----------------------------------------------------------------------------

(* Signup, served concurrently: USERS is one dict shared by the request threads *)

\* form fields as sent: texts as sequences of tokens, a blank being a token
SignupNames == {<<>>, <<"student">>, <<"carol">>, <<" ", "carol", " ">>}
SignupPasswords == {<<>>, <<"pw1">>, <<"pw2">>, <<" ", " ">>}

\* signup up to the test `username in USERS`
SignupCheck(c, method, form_username, form_password) ==
    /\ NewCall(c)
    /\ IF method = "GET"
       THEN Finish(c, [op |-> "signup", method |-> method, code |-> 200, error |-> None])
       ELSE IF Strip(form_username) = <<>> \/ Strip(form_password) = <<>>
       THEN Finish(c, [op |-> "signup", method |-> method, code |-> 200,
                       username |-> Strip(form_username),
                       error |-> Some("Username and password are required.")])
       ELSE IF Strip(form_username) \in DOMAIN USERS
       THEN Finish(c, [op |-> "signup", method |-> method, code |-> 200,
                       username |-> Strip(form_username),
                       error |-> Some("Username already exists.")])
       ELSE /\ calls' = Put(calls, c, [at |-> "store", op |-> "signup", method |-> method,
                                       username |-> Strip(form_username),
                                       password |-> Strip(form_password)])
            /\ UNCHANGED resp
    /\ UNCHANGED <<now, uuids, channels, notification_events, inbox, mediaVars, USERS>>

\* signup from USERS[username] = generate_password_hash(password) on: the credential is
\* stored, save_users writes the dict to users.json, the session is set
SignupStore(c) ==
    /\ c \in DOMAIN calls
    /\ calls[c].at = "store"
    /\ USERS' = Put(USERS, calls[c].username, generate_password_hash(calls[c].password))
    /\ Finish(c, [op |-> "signup", method |-> calls[c].method, code |-> 302,
                  username |-> calls[c].username,
                  stored |-> generate_password_hash(calls[c].password),
                  session |-> calls[c].username])
    /\ UNCHANGED <<now, uuids, channels, notification_events, inbox, mediaVars>>

NextSignup ==
    \/ \E c \in CallIds, method \in {"GET", "POST"} :
          \E form_username \in SignupNames, form_password \in SignupPasswords :
             SignupCheck(c, method, form_username, form_password)
    \/ \E c \in CallIds : SignupStore(c)

SpecSignup == Init /\ [][NextSignup]_vars

----------------------------------------------------------------------------

(* Claims about NotificationService.publish, under SpecPublish *)

\* whether the channel's deliver raises on this call
Raises(name, faults, rs) ==
    \/ name = "base"
    \/ name = "firestore_event_log" /\ faults.log
    \/ name = "firestore_user_inbox" /\ faults.inbox < Len(rs)

\* what the channel returns when it does not raise
Outcome(name, event_id, rs) ==
    CASE name = "firestore_event_log" ->
            [channel |-> name, status |-> "ok", logged_event_id |-> event_id]
      [] name = "firestore_user_inbox" ->
            [channel |-> name, status |-> "ok", writes |-> Len(rs)]
      [] OTHER ->
            [channel |-> name, status |-> "skipped", reason |-> "stub_not_implemented",
             recipient_count |-> Len(rs)]

Range(seq) == {seq[i] : i \in 1..Len(seq)}

\* the step is one of operation op, and resp' is its result: every operation sets resp
\* and leaves the clock alone, a step of the clock leaves resp alone
Answered(op) == now' = now /\ resp'.op = op

\* C1: a publish with at least one non-empty recipient returns status "ok" whichever
\* channels raise; it returns one outcome per channel, the raising channels' with status
\* "error" and every other channel's own outcome, and the channels that did not raise
\* have written: the event log holds the event, the recipients' inboxes hold their entry.
C1_FailingChannelIsolated ==
    (resp.op = "publish" /\ FilterRecipients(resp.recipients) # <<>>) =>
        LET rs == FilterRecipients(resp.recipients) IN
        /\ resp.status = "ok"
        /\ Len(resp.deliveries) = Len(channels)
        /\ \A i \in 1..Len(channels) :
              IF Raises(channels[i], resp.faults, rs)
              THEN resp.deliveries[i] = [channel |-> channels[i], status |-> "error"]
              ELSE resp.deliveries[i] = Outcome(channels[i], resp.event_id, rs)
        /\ ~resp.faults.log => resp.event_id \in DOMAIN notification_events
        /\ resp.faults.inbox = Len(rs) =>
              \A r \in Range(rs) : resp.event_id \in DOMAIN inbox[r]

\* a publish where one channel raised before another one, which still delivered
C1_Witness ==
    /\ resp.op = "publish"
    /\ resp.status = "ok"
    /\ channels = DefaultChannels
    /\ resp.faults.log
    /\ resp.deliveries[1].status = "error"
    /\ resp.deliveries[2] = [channel |-> "firestore_user_inbox", status |-> "ok", writes |-> 2]
    /\ resp.event_id \in DOMAIN inbox["alice"] \cap DOMAIN inbox["bob"]

AllDelivered ==
    /\ resp.op = "publish"
    /\ resp.status = "ok"
    /\ channels = DefaultChannels
    /\ \A i \in 1..Len(resp.deliveries) : resp.deliveries[i].status # "error"

\* C2: after a publish of the default service in which no channel failed, the returned
\* event_id is the key and the event_id field of exactly one record of notification_events
\* and of exactly one inbox entry of every recipient of the call.
C2_EventIdJoinsLogAndInboxes ==
    AllDelivered =>
        LET id == resp.event_id IN
        /\ id \in DOMAIN notification_events
        /\ {k \in DOMAIN notification_events : notification_events[k].event_id = id} = {id}
        /\ \A r \in Range(FilterRecipients(resp.recipients)) :
              /\ id \in DOMAIN inbox[r]
              /\ {k \in DOMAIN inbox[r] : inbox[r][k].event_id = id} = {id}

\* the second publish, to two recipients, all channels delivering
C2_Witness ==
    /\ AllDelivered
    /\ resp.event_id = 2
    /\ Range(FilterRecipients(resp.recipients)) = {"alice", "bob"}
    /\ DOMAIN notification_events = {1, 2}

\* C3: a publish whose recipient list is empty or holds only empty entries returns
\* {status: "skipped", reason: "no_recipients", deliveries: []} without an event_id,
\* draws no uuid, and leaves the event log and every inbox as they were.
C3_NoRecipientsSkips ==
    [][(Answered("publish") /\ FilterRecipients(resp'.recipients) = <<>>) =>
          /\ resp' = [op |-> "publish", recipients |-> resp'.recipients,
                      faults |-> resp'.faults, status |-> "skipped",
                      reason |-> "no_recipients", deliveries |-> <<>>]
          /\ uuids' = uuids
          /\ notification_events' = notification_events
          /\ inbox' = inbox]_vars

\* a skipped publish of a list of empty entries, on a store that holds an event
C3_Witness ==
    /\ resp.op = "publish"
    /\ resp.status = "skipped"
    /\ resp.recipients = <<"", "">>
    /\ notification_events # EmptyColl
    /\ inbox["alice"] # EmptyColl

----------------------------------------------------------------------------
(* Claims about the inbox lifecycle, under Spec *)

UnreadEntries(docs) == {id \in DOMAIN docs : ~docs[id].read}
ReadEntries(docs) == {id \in DOMAIN docs : docs[id].read}

\* C5: in every reachable state every stored inbox entry has a non-null read_at exactly
\* when its read flag is true.
C5_ReadAtIffRead ==
    \A u \in Usernames : \A id \in DOMAIN inbox[u] :
        (inbox[u][id].read_at # None) <=> (inbox[u][id].read = TRUE)

\* an inbox that holds an entry marked read beside an unread one
C5_Witness ==
    \E u \in Usernames : \E id, other \in DOMAIN inbox[u] :
        /\ inbox[u][id].read /\ inbox[u][id].read_at # None
        /\ ~inbox[u][other].read /\ inbox[u][other].read_at = None

\* C6: clear with mode "read" removes exactly the principal's entries with read = true
\* and leaves the unread ones as they were; clear with mode "all" removes every entry of
\* the principal; a clear that finds nothing answers cleared_count = 0 without an error
\* and changes nothing.
C6_ClearByMode ==
    [][(Answered("clear") /\ resp'.username \in Usernames /\ resp'.raw \in {"read", "all"}) =>
          LET u == resp'.username
              before == inbox[u]
              after == inbox'[u]
              selected == IF resp'.raw = "read" THEN ReadEntries(before) ELSE DOMAIN before
          IN /\ resp'.code = 200
             /\ resp'.raw = "read" =>
                   /\ DOMAIN after = UnreadEntries(before)
                   /\ \A id \in DOMAIN after : after[id] = before[id]
             /\ resp'.raw = "all" => DOMAIN after = {}
             /\ selected = {} => resp'.cleared_count = 0 /\ inbox' = inbox]_vars

\* a clear of the read entries that removed one and left an unread one
C6_Witness ==
    /\ resp.op = "clear"
    /\ resp.code = 200
    /\ resp.raw = "read"
    /\ resp.cleared_count = 1
    /\ UnreadEntries(inbox[resp.username]) # {}

\* C7: mark-all-read on an inbox with N unread entries answers updated_count = N and
\* sets read on each of them; from then on, until an event is published, the inbox holds
\* no unread entry, and an unread-count query answers the number of unread entries of
\* the inbox, hence 0.
C7_MarkAllReadThenCountZero ==
    [][\A u \in Usernames :
          /\ (Answered("mark_all_read") /\ resp'.username = u) =>
                /\ resp'.code = 200
                /\ resp'.updated_count = Cardinality(UnreadEntries(inbox[u]))
                /\ DOMAIN inbox'[u] = DOMAIN inbox[u]
                /\ \A id \in DOMAIN inbox[u] : inbox'[u][id].read = TRUE
          /\ (UnreadEntries(inbox[u]) = {} /\ uuids' = uuids) => UnreadEntries(inbox'[u]) = {}
          /\ (Answered("unread_count") /\ resp'.username = u) =>
                /\ inbox' = inbox
                /\ resp'.unread_count = Cardinality(UnreadEntries(inbox[u]))]_vars

\* a mark-all-read that found two unread entries
C7_Witness ==
    /\ resp.op = "mark_all_read"
    /\ resp.code = 200
    /\ resp.updated_count = 2
    /\ Cardinality(ReadEntries(inbox[resp.username])) = 2

\* C8: mark-one-read of an id without an entry in the principal's inbox answers 404 and
\* changes nothing; otherwise it sets read, read_at and updated_at of that entry, leaves
\* its other fields, and changes no other entry.
C8_MarkOneRead ==
    [][(Answered("mark_read") /\ resp'.username \in Usernames) =>
          LET u == resp'.username
              id == resp'.notification_id
          IN IF id \notin DOMAIN inbox[u]
             THEN /\ resp'.code = 404
                  /\ inbox' = inbox
                  /\ notification_events' = notification_events
             ELSE /\ resp'.code = 200
                  /\ inbox'[u][id] = [inbox[u][id] EXCEPT !.read = TRUE,
                                                          !.read_at = Some(now),
                                                          !.updated_at = now]
                  /\ \A v \in Usernames :
                        /\ DOMAIN inbox'[v] = DOMAIN inbox[v]
                        /\ \A k \in DOMAIN inbox[v] :
                              (v # u \/ k # id) => inbox'[v][k] = inbox[v][k]]_vars

\* an entry marked read after its creation, beside an entry that is still unread
C8_Witness ==
    /\ resp.op = "mark_read"
    /\ resp.code = 200
    /\ LET docs == inbox[resp.username] IN
       /\ resp.notification_id \in DOMAIN docs
       /\ docs[resp.notification_id].read
       /\ docs[resp.notification_id].updated_at > docs[resp.notification_id].created_at
       /\ UnreadEntries(docs) # {}

----------------------------------------------------------------------------
(* Claim about a repeated delivery, under SpecRetry *)

----------------------------------------------------------------------------
(* Claims about the media registry, under SpecMedia *)

\* the path is the directory or one of its descendants
IsWithin(path, dir) ==
    LET p == Segments(path)
        d == Segments(dir)
    IN Len(p) >= Len(d) /\ SubSeq(p, 1, Len(d)) = d

\* the records of a device
OfDevice(coll, device_id) == {y \in DOMAIN coll : coll[y].device_id = device_id}

\* x and the records of same that come before it in the query's order
UpTo(coll, same, x) == {y \in same : y = x \/ Newer(coll, y, x)}

\* the records of same that have fewer than MEDIA_LIST_LIMIT of same before them: all of
\* them when there are no more than that, else the one that has exactly
\* MEDIA_LIST_LIMIT - 1 before it and those before it
FirstInOrder(coll, same) ==
    IF Cardinality(same) <= MEDIA_LIST_LIMIT THEN same
    ELSE UpTo(coll, same,
              CHOOSE x \in same : Cardinality(UpTo(coll, same, x)) = MEDIA_LIST_LIMIT)

ListedAre(items, coll, first, t) ==
    Range(items) = {id \in first : t < coll[id].expires_at[1]}

GoneOnceExpired ==
    LET coll == Registry(media_uploads)
    IN (Answered("media_download") /\ resp'.username \in Usernames
           /\ resp'.upload_id \in DOMAIN coll
           /\ now >= coll[resp'.upload_id].expires_at[1]) => resp'.code = 410

\* C9 as claimed: an upload registered with ttl_seconds = 180 is in the list of its
\* device at every read time before created_at + 180 and in none from then on; a
\* download of it from expires_at on answers Gone.
C9_ListedIffWithinTtl ==
    [][/\ (Answered("media_list") /\ resp'.code = 200) =>
             LET coll == Registry(media_uploads)
             IN \A id \in DOMAIN coll :
                   coll[id].device_id = resp'.device_id =>
                      (id \in Range(resp'.items)
                          <=> now < coll[id].created_at + MEDIA_TTL_SECONDS)
       /\ GoneOnceExpired]_vars

\* C9 as amended: an upload is registered with created_at = its time and expires_at =
\* created_at + 180; the list of a device holds a record of the device exactly when the
\* read time is before its expires_at and fewer than 50 records of the device come
\* before it in the query's order (newest first); a download of a record from its
\* expires_at on answers Gone.
C9_ListedIffLiveAmongNewest ==
    [][/\ (Answered("upload") /\ resp'.code = 201) =>
             LET doc == Registry(media_uploads')[resp'.upload_id]
             IN /\ resp'.upload_id \notin DOMAIN Registry(media_uploads)
                /\ doc.created_at = now
                /\ doc.expires_at = Some(now + MEDIA_TTL_SECONDS)
       /\ (Answered("media_list") /\ resp'.code = 200) =>
             ListedAre(resp'.items, Registry(media_uploads),
                       FirstInOrder(Registry(media_uploads),
                                    OfDevice(Registry(media_uploads), resp'.device_id)),
                       now)
       /\ GoneOnceExpired]_vars

\* a list read at the very second an upload of this run expires, which leaves it out
C9_Witness ==
    /\ resp.op = "media_list"
    /\ resp.code = 200
    /\ \E id \in DOMAIN media_uploads :
          /\ media_uploads[id].device_id = resp.device_id
          /\ media_uploads[id].created_at + MEDIA_TTL_SECONDS = resp.at
          /\ id \notin Range(resp.items)

\* C10: a download answers NotFound when no record has the id; Gone when the record has
\* expired, or is live while its file is absent; and the file only when the record
\* exists, is live, its resolved path is the upload root or inside it, and the file
\* exists. An expired upload is neither reported NotFound nor served.
C10_DownloadOutcomes ==
    [][(Answered("media_download") /\ resp'.username \in Usernames) =>
          LET id == resp'.upload_id
              coll == Registry(media_uploads)
              exists == id \in DOMAIN coll
              doc == coll[id]
              live == now < doc.expires_at[1]
              path == Resolve(PathJoin(BASE_DIR, doc.relative_path))
          IN /\ ~exists => resp'.code = 404
             /\ (exists /\ ~live) => resp'.code = 410
             /\ (exists /\ live /\ path \notin Disk(files)) => resp'.code = 410
             /\ resp'.code = 200 =>
                   /\ exists
                   /\ live
                   /\ IsWithin(path, UPLOAD_ROOT)
                   /\ path \in Disk(files)]_vars

\* C11: a download never serves a file whose resolved storage path is neither the
\* upload root nor inside it; while the record is live the request is refused with the
\* path-validation error.
C11_NeverServesOutsideRoot ==
    [][(Answered("media_download") /\ resp'.username \in Usernames
           /\ resp'.upload_id \in DOMAIN Registry(media_uploads)) =>
          LET doc == Registry(media_uploads)[resp'.upload_id]
              path == Resolve(PathJoin(BASE_DIR, doc.relative_path))
          IN ~IsWithin(path, UPLOAD_ROOT) =>
                /\ resp'.code # 200
                /\ now < doc.expires_at[1] => resp'.code = 400]_vars

----------------------------------------------------------------------------
(* Claims about the inbox list route, under SpecInbox *)

\* the integer that a limit text of LimitTexts writes, None when it writes none
Requested(text) ==
    CASE text = <<"5", "0", "0">> -> Some(500)
      [] text = <<"2">> -> Some(2)
      [] text = <<"0">> -> Some(0)
      [] text = <<"-", "3">> -> Some(0 - 3)
      [] text = <<"2", "0">> -> Some(20)
      [] OTHER -> None

\* max(1, min(n, 100)) spelled out
Effective(n) == IF n < 1 THEN 1 ELSE IF n > 100 THEN 100 ELSE n

\* C12: the inbox list uses the limit max(1, min(requested, 100)) for every integer
\* request (20 when none is given) and returns that many entries of the caller's
\* inbox, or all the matching ones when there are fewer; a limit that is no integer is
\* rejected with a validation error.
C12_ListLimitClamped ==
    [][(Answered("list") /\ resp'.username \in Usernames) =>
          LET asked == Requested(ArgsGet(resp'.args, "limit", <<"2", "0">>))
              docs == inbox[resp'.username]
              matching == IF "unread_only" \in DOMAIN resp'.args
                          THEN {id \in DOMAIN docs : ~docs[id].read}
                          ELSE DOMAIN docs
          IN IF asked = None THEN resp'.code = 400
             ELSE /\ resp'.code = 200
                  /\ resp'.count = Len(resp'.items)
                  /\ Len(resp'.items) <= Effective(asked[1])
                  /\ Len(resp'.items) = Min(Effective(asked[1]), Cardinality(matching))
                  /\ Range(resp'.items) \subseteq matching
                  /\ Cardinality(Range(resp'.items)) = Len(resp'.items)]_vars

\* a request for 500 entries of an inbox that holds more than 100, answered with 100
C12_Witness ==
    /\ resp.op = "list"
    /\ resp.code = 200
    /\ "limit" \in DOMAIN resp.args
    /\ resp.args["limit"] = <<"5", "0", "0">>
    /\ Cardinality(DOMAIN inbox[resp.username]) > INBOX_LIST_MAX
    /\ resp.count = INBOX_LIST_MAX

----------------------------------------------------------------------------
(* Claims about the batches of a clear, under SpecClear *)

\* the smallest number of chunks of size n that hold k things
CeilDiv(k, n) == (k + n - 1) \div n

\* C13: a clear that selects K entries commits ceil(K / 450) batches one after the
\* other, none of more than 450 deletes, every selected entry in exactly one of them,
\* and answers cleared_count = K; the selected entries are gone afterwards.
C13_ClearInChunks ==
    [][(Answered("clear") /\ resp'.code = 200) =>
          LET docs == inbox[resp'.username]
              selected == IF resp'.mode = "read" THEN {id \in DOMAIN docs : docs[id].read}
                          ELSE DOMAIN docs
              batches == resp'.batches
          IN /\ Len(batches) = CeilDiv(Cardinality(selected), BATCH_SIZE)
             /\ \A i \in 1..Len(batches) :
                   /\ Len(batches[i]) <= BATCH_SIZE
                   /\ Cardinality(Range(batches[i])) = Len(batches[i])
             /\ \A i, j \in 1..Len(batches) :
                   i # j => Range(batches[i]) \cap Range(batches[j]) = {}
             /\ UNION {Range(batches[i]) : i \in 1..Len(batches)} = selected
             /\ resp'.cleared_count = Cardinality(selected)
             /\ DOMAIN inbox'[resp'.username] = DOMAIN docs \ selected]_vars

\* a clear of more entries than two batches hold
C13_Witness ==
    /\ resp.op = "clear"
    /\ resp.code = 200
    /\ resp.cleared_count > 2 * BATCH_SIZE
    /\ Len(resp.batches) = 3

----------------------------------------------------------------------------
(* Claims about the deliveries of a publish, under SpecPublish *)

\* the channel names of a list of outcomes
ChannelNames(deliveries) == [i \in 1..Len(deliveries) |-> deliveries[i].channel]

\* C14: the result of a publish that was not skipped holds, when publish returns, one
\* outcome per channel of the service, in the order of the service's channel list; for
\* the default service that is event log, user inbox, web-push stub, mobile-push stub.
C14_OneOutcomePerChannelInOrder ==
    (resp.op = "publish" /\ resp.status # "skipped") =>
        /\ ChannelNames(resp.deliveries) = channels
        /\ channels = DefaultChannels =>
              ChannelNames(resp.deliveries) =
                 <<"firestore_event_log", "firestore_user_inbox",
                   "web_push_stub", "mobile_push_stub">>

\* a publish of the default service in which the inbox channel raised
C14_Witness ==
    /\ resp.op = "publish"
    /\ resp.status = "ok"
    /\ channels = DefaultChannels
    /\ Len(resp.deliveries) = 4
    /\ resp.deliveries[2] = [channel |-> "firestore_user_inbox", status |-> "error"]
    /\ resp.deliveries[4].status = "skipped"

----------------------------------------------------------------------------
(* Claims about the side notifications, under SpecSide *)

\* C15: an upload of an allowed file by a logged-in user answers 201 and leaves its
\* media_uploads record and its file, and a well-formed command of a logged-in user
\* answers 200, whether the side publish raises, one of its channels fails, or neither.
C15_SideNotificationNeverFailsPrimary ==
    [][/\ (/\ Answered("upload")
           /\ Truthy(resp'.username)
           /\ Suffix(resp'.file) \in ALLOWED_IMAGE_EXTS) =>
             /\ resp'.code = 201
             /\ resp'.upload_id \notin DOMAIN media_uploads
             /\ resp'.upload_id \in DOMAIN media_uploads'
             /\ media_uploads'[resp'.upload_id] =
                   MediaDoc(resp'.device_id, resp'.username, resp'.file,
                            <<ToString(resp'.upload_id), Suffix(resp'.file)>>, now)
             /\ StoredPath(resp'.device_id,
                           <<ToString(resp'.upload_id), Suffix(resp'.file)>>) \in files'
       /\ (/\ Answered("command")
           /\ Truthy(resp'.username)
           /\ resp'.is_json
           /\ resp'.command \in {"open", "close"}) =>
             resp'.code = 200]_vars

\* an upload that succeeded although its side publish raised
C15_Witness ==
    /\ resp.op = "upload"
    /\ resp.code = 201
    /\ PublishRaises(resp.faults)
    /\ resp.upload_id \in DOMAIN media_uploads
    /\ notification_events = EmptyColl

----------------------------------------------------------------------------
(* Claims about the channels, under SpecStubs and SpecEventLog *)

\* C16: the web-push and the mobile-push placeholder, called with a recipient list of
\* length N, return status "skipped", reason "stub_not_implemented" and recipient_count
\* N, and leave the event log and every inbox entry, delivery sub-statuses included,
\* as they were.
C16_StubsSkipAndWriteNothing ==
    [][Answered("stub_deliver") =>
          /\ resp'.channel \in StubChannels
          /\ resp'.status = "skipped"
          /\ resp'.reason = "stub_not_implemented"
          /\ resp'.recipient_count = Len(resp'.recipients)
          /\ notification_events' = notification_events
          /\ inbox' = inbox
          /\ mediaVars' = mediaVars]_vars

\* a placeholder called with two recipients on a store that holds an inbox entry
C16_Witness ==
    /\ resp.op = "stub_deliver"
    /\ resp.channel = "mobile_push_stub"
    /\ resp.recipient_count = 2
    /\ \E id \in DOMAIN inbox["alice"] :
          inbox["alice"][id].delivery.mobile_push.status = "not_attempted"

\* the keys of the event-log records of an event
RecordsOf(events, event_id) == {k \in DOMAIN events : events[k].event_id = event_id}

\* C18: a delivery of the event-log channel leaves exactly one notification_events
\* record of its event_id, the one it wrote, also when the log held a record of that
\* event already; the other records stay, and no event has more than one record.
C18_EventLogOverwrites ==
    [][/\ Answered("log_deliver") =>
             /\ RecordsOf(notification_events', resp'.event_id) = {resp'.event_id}
             /\ notification_events'[resp'.event_id] =
                   [recipient_usernames |-> resp'.recipients, logged_at |-> now]
                      @@ EventPayload(resp'.event_id)
             /\ \A k \in DOMAIN notification_events \ {resp'.event_id} :
                   /\ k \in DOMAIN notification_events'
                   /\ notification_events'[k] = notification_events[k]
       /\ \A id \in EventIds : Cardinality(RecordsOf(notification_events', id)) <= 1]_vars

\* the event-log channel delivered an event a second time, later than the first
C18_Witness ==
    /\ resp.op = "log_deliver"
    /\ resp.event_id \in DOMAIN notification_events
    /\ notification_events[resp.event_id].logged_at >
          notification_events[resp.event_id].created_at_client_iso
    /\ Cardinality(DOMAIN notification_events) = 2

----------------------------------------------------------------------------
(* Claims about the recipient resolver, under SpecResolve *)

\* C17: the resolver returns the list of the actor alone when the actor is not empty and
\* the empty list when it is empty or missing; the list has no duplicates, and it is
\* the same for every device_id.
C17_ResolverReturnsActorAlone ==
    resp.op = "resolve" =>
        /\ resp.recipients =
              IF resp.actor_username # "" THEN <<resp.actor_username>> ELSE <<>>
        /\ \A i, j \in 1..Len(resp.recipients) :
              resp.recipients[i] = resp.recipients[j] => i = j
        /\ \A device_id \in ResolveDevices :
              resolve_notification_recipients_for_device(device_id, resp.actor_username)
                 = resp.recipients

\* the resolver called without an actor, for a device, after the demo route notified
C17_Witness ==
    /\ resp.op = "resolve"
    /\ resp.actor_username = ""
    /\ resp.device_id = "shed"
    /\ resp.recipients = <<>>
    /\ inbox["alice"] # EmptyColl

----------------------------------------------------------------------------
(* Claims about requests without a user, under SpecRoutes *)

InboxRoutes == {"list", "unread_count", "mark_read", "mark_all_read", "clear"}
MediaRoutes == {"upload", "media_list", "media_download"}

\* C19: an inbox route (list, unread count, mark one read, mark all read, clear) or a
\* media route (upload, list, download) called without a user answers 401, and the
\* event log, the inboxes, the media records and the files are as they were.
C19_NoUserRejectedStoreUnchanged ==
    [][(/\ now' = now
        /\ resp'.op \in InboxRoutes \cup MediaRoutes
        /\ resp'.username = "") =>
          /\ resp'.code = 401
          /\ notification_events' = notification_events
          /\ inbox' = inbox
          /\ media_uploads' = media_uploads
          /\ files' = files
          /\ uuids' = uuids]_vars

\* a clear without a user, while bob's inbox holds a read entry and his upload is stored
C19_Witness ==
    /\ resp.op = "clear"
    /\ resp.username = ""
    /\ resp.code = 401
    /\ \E id \in DOMAIN inbox["bob"] : inbox["bob"][id].read
    /\ media_uploads # EmptyColl

----------------------------------------------------------------------------
(* Claims about the mode of clear, under Spec *)

\* C20: a clear whose mode is neither "read" nor "all" answers 400 and deletes
\* nothing; a clear without a mode does what mode "read" does: it answers 200, removes
\* the read entries, counts them, and leaves the unread entries as they were.
C20_ClearModeValidated ==
    [][(Answered("clear") /\ resp'.username \in Usernames) =>
          LET before == inbox[resp'.username]
              after == inbox'[resp'.username]
          IN /\ resp'.raw \notin {"", "read", "all"} =>
                   /\ resp'.code = 400
                   /\ inbox' = inbox
             /\ resp'.raw = "" =>
                   /\ resp'.code = 200
                   /\ resp'.mode = "read"
                   /\ resp'.cleared_count = Cardinality(ReadEntries(before))
                   /\ DOMAIN after = UnreadEntries(before)
                   /\ \A id \in DOMAIN after : after[id] = before[id]]_vars

----------------------------------------------------------------------------
(* Claims about the life of an inbox entry, under Spec *)

\* the fields of an entry that marking it read may set
ReadFields == {"read", "read_at", "updated_at"}

\* C21: in every step of publish, mark-one-read, mark-all-read, unread-count and clear,
\* an entry that exists before and after keeps read = true once it has it; an entry
\* changes only in a step of mark-one-read or mark-all-read, is read afterwards, and
\* differs only in its read, read_at and updated_at fields; an entry disappears only
\* in a step of clear.
C21_EntryLifecycleMonotone ==
    [][\A u \in Usernames : \A id \in DOMAIN inbox[u] :
          /\ id \notin DOMAIN inbox'[u] => (Answered("clear") /\ resp'.code = 200)
          /\ id \in DOMAIN inbox'[u] =>
                /\ inbox[u][id].read => inbox'[u][id].read
                /\ inbox'[u][id] # inbox[u][id] =>
                      /\ Answered("mark_read") \/ Answered("mark_all_read")
                      /\ inbox'[u][id].read
                      /\ \A k \in DOMAIN inbox[u][id] \ ReadFields :
                            inbox'[u][id][k] = inbox[u][id][k]]_vars

\* an entry that was marked read stays read while a later event is published to its inbox
C21_Witness ==
    /\ resp.op = "demo_notify"
    /\ resp.code = 200
    /\ \E id, other \in DOMAIN inbox[resp.username] :
          /\ inbox[resp.username][id].read
          /\ ~inbox[resp.username][other].read
          /\ other > id

----------------------------------------------------------------------------
(* Claims about what a publish adds, under SpecPublish *)

\* the step is a publish that was not skipped
PublishedOk == Answered("publish") /\ resp'.status = "ok"

\* the event_id of the step was never drawn before and names no stored record
FreshEventId ==
    /\ resp'.event_id \notin 1..uuids
    /\ resp'.event_id \notin DOMAIN notification_events
    /\ \A u \in Usernames : resp'.event_id \notin DOMAIN inbox[u]

\* every record that existed before the step is as it was
OldRecordsKept ==
    /\ \A k \in DOMAIN notification_events :
          k \in DOMAIN notification_events' /\ notification_events'[k] = notification_events[k]
    /\ \A u \in Usernames : \A k \in DOMAIN inbox[u] :
          k \in DOMAIN inbox'[u] /\ inbox'[u][k] = inbox[u][k]

\* the step added one event-log record, and one unread entry to each recipient's inbox
\* and to no other inbox, all under the event_id of the step
AddedOnePerRecipient ==
    /\ DOMAIN notification_events' = DOMAIN notification_events \cup {resp'.event_id}
    /\ notification_events'[resp'.event_id].event_id = resp'.event_id
    /\ \A u \in Usernames :
          IF u \in Range(FilterRecipients(resp'.recipients))
          THEN /\ DOMAIN inbox'[u] = DOMAIN inbox[u] \cup {resp'.event_id}
               /\ ~inbox'[u][resp'.event_id].read
               /\ inbox'[u][resp'.event_id].event_id = resp'.event_id
          ELSE inbox'[u] = inbox[u]

----------------------------------------------------------------------------
(* Claims about the batch of mark-all-read, under SpecMarkAll *)

\* C23: a mark-all-read of a principal with N unread entries commits one batch that
\* holds the N updates, and none when N = 0; the batch holds no more than 500
\* operations; afterwards the N entries are read and the answer counts them.
C23_MarkAllOneBoundedBatch ==
    [][(Answered("mark_all_read") /\ resp'.username \in Usernames) =>
          LET unread == UnreadEntries(inbox[resp'.username]) IN
          /\ Len(resp'.batches) = IF unread = {} THEN 0 ELSE 1
          /\ \A i \in 1..Len(resp'.batches) :
                /\ Range(resp'.batches[i]) = unread
                /\ Len(resp'.batches[i]) <= FIRESTORE_BATCH_MAX
          /\ resp'.code = 200
          /\ resp'.updated_count = Cardinality(unread)
          /\ UnreadEntries(inbox'[resp'.username]) = {}]_vars

----------------------------------------------------------------------------
(* Claims about the stored media records, under SpecMedia *)

\* C24: an upload registers a record whose expires_at is the time of the upload plus
\* MEDIA_TTL_SECONDS = 180; in every step of upload (with its side publish), list and
\* download, and as time passes, every record of media_uploads that exists stays stored
\* and unchanged, expired or not, and so does its file. The seeded records are stored
\* beside media_uploads and a record of the run never takes the id of one of them.
C24_MediaRecordFixed ==
    [][/\ \A id \in DOMAIN media_uploads :
             /\ id \in DOMAIN media_uploads'
             /\ media_uploads'[id] = media_uploads[id]
       /\ files \subseteq files'
       /\ \A id \in DOMAIN media_uploads' \ DOMAIN media_uploads :
             /\ id \notin SeedIds
             /\ Answered("upload")
             /\ resp'.code = 201
             /\ resp'.upload_id = id
             /\ media_uploads'[id].created_at = now
             /\ media_uploads'[id].expires_at = Some(now + 180)]_vars

\* a record of this run that has expired is still stored when another request is served
C24_Witness ==
    /\ resp.op \in {"media_list", "media_download"}
    /\ resp.code \in {200, 410}
    /\ \E id \in DOMAIN media_uploads :
          /\ media_uploads[id].expires_at = Some(media_uploads[id].created_at + 180)
          /\ media_uploads[id].expires_at[1] <= now

----------------------------------------------------------------------------
(* Claims about requests served concurrently, under SpecRace *)

\* a step in which call c is answered
Answers(c) ==
    /\ c \in DOMAIN calls'
    /\ calls'[c].at = "done"
    /\ (c \in DOMAIN calls => calls[c].at # "done")

\* C25: whatever a clear of the same principal does between the steps of a
\* mark-one-read, the mark-one-read of a logged-in principal is answered with success
\* (200) or with NotFound (404), never with an error of the store, and it does not
\* store an entry that was deleted.
C25_MarkReadAtomicWithClear ==
    [][\A c \in CallIds :
          (Answers(c) /\ calls'[c].op = "mark_read" /\ Truthy(calls'[c].username))
          => /\ calls'[c].code \in {200, 404}
             /\ DOMAIN inbox'[calls'[c].username] \subseteq DOMAIN inbox[calls'[c].username]]_vars

\* C26: the cleared_count that a clear call answers is the number of entries that its
\* own batches removed from the inbox, also when another clear of the same principal
\* runs between its query and its commits.
C26_ClearedCountIsRemoved ==
    \A c \in DOMAIN calls :
        (calls[c].at = "done" /\ calls[c].op = "clear" /\ calls[c].code = 200)
        => calls[c].cleared_count = calls[c].removed

----------------------------------------------------------------------------
(* Claims about the separation of the principals' inboxes, under SpecIsolation *)

\* C27: a request served for principal A (list, unread count, mark one, mark all, clear,
\* or a demo notification published with A as actor) leaves the inbox of
\* every other user as it was, a request without a principal leaves every inbox as it
\* was, and the entries that A's list returns are entries of A's inbox.
C27_InboxOfOthersUntouched ==
    [][/\ \A u \in Usernames : u # resp'.username => inbox'[u] = inbox[u]
       /\ (Answered("list") /\ resp'.code = 200)
          => \A k \in 1..Len(resp'.items) :
                /\ resp'.items[k] \in DOMAIN inbox[resp'.username]
                /\ inbox[resp'.username][resp'.items[k]].username = resp'.username]_vars

\* alice's clear removed entries while bob's inbox holds an unread entry
C27_Witness ==
    /\ resp.op = "clear"
    /\ resp.username = "alice"
    /\ resp.code = 200
    /\ resp.cleared_count > 0
    /\ Unread(inbox["bob"]) # {}

----------------------------------------------------------------------------
(* Claims about signup, under SpecSignup *)

\* the signup calls that succeeded: they stored a credential and redirected
SignedUp(cs) == {c \in DOMAIN cs : cs[c].at = "done" /\ cs[c].op = "signup" /\ cs[c].code = 302}

\* C28: no step of a signup changes the credential of a username that is registered,
\* and of the signups for one username, in whatever order their steps are served, at
\* most one succeeds, the stored credential being the one that signup set.
C28_RegisteredNeverOverwritten ==
    [][/\ \A u \in DOMAIN USERS : u \in DOMAIN USERS' /\ USERS'[u] = USERS[u]
       /\ \A c, d \in SignedUp(calls') :
             calls'[c].username = calls'[d].username => c = d
       /\ \A c \in SignedUp(calls') : USERS'[calls'[c].username] = calls'[c].stored]_vars

====
